---- MODULE Spec2Model ----
\* A model of the make-your-exam front end: the App component (upload, search,
\* cart, generate), the PageApprover that approves a search result, and the
\* CropperModal that turns a pixel crop into a fractional one.
\*
\* One action is one event handler, or the continuation of an async handler
\* after its await (the response of a request in flight).  A handler reads the
\* state of the render it was created in; a user event always reaches the
\* handlers of the latest render, a continuation keeps what it captured when
\* the request was sent.
EXTENDS Integers, Sequences, FiniteSets, TLC

\* ---------------------------------------------------------------- bounds
MaxRequests == 4     \* requests started in one behaviour of Spec
LiveRequests == 3    \* requests started in one behaviour of LiveSpec
MaxGenerates == 2    \* generate requests started in one behaviour of the other specifications
MaxAdds == 2         \* addToCart calls in one behaviour of Spec
CartAdds == 4        \* addToCart calls in one behaviour of CartSpec
ApproveAdds == 2     \* addToCart calls in one behaviour of PageSpec and of SelectionSpec
MaxFiles == 1        \* files selected in one upload
PageCount == 2       \* pages of every uploaded document
MaxClock == 1        \* largest value Date.now() takes
MaxDim == 1          \* images are displayed MaxDim or MaxDim + 1 wide and high

\* The largest of the bounds on addToCart calls.
MostAdds ==
    CHOOSE m \in {MaxAdds, CartAdds, ApproveAdds} :
        \A k \in {MaxAdds, CartAdds, ApproveAdds} : k <= m

\* ------------------------------------------------------------ JS values
\* null / undefined of an object-valued field is the empty sequence, a value v
\* is <<v>>.  A missing number (undefined, or 0) is 0: both are falsy for `||`.
Null == <<>>
Some(v) == <<v>>
Truthy(opt) == opt # <<>>

\* a || b on numbers: a when a is truthy, else b
Or(a, b) == IF a # 0 THEN a ELSE b

\* A quotient a / b of the cropper is kept as the unreduced pair; two
\* quotients are the same number when they cross-multiply to the same value.
Div(a, b) == [num |-> a, den |-> b]
SameNumber(p, q) == p.num * q.den = q.num * p.den
LeqOne(p) == p.num <= p.den
AddFrac(p, q) == [num |-> p.num * q.den + q.num * p.den, den |-> p.den * q.den]

\* ------------------------------------------------------------- state
VARIABLES
    files,          \* App: files of the last successful upload
    searchQuery,    \* App: text of the search box
    searchResults,  \* App: results displayed
    cart,           \* App: the cart array
    isProcessing,   \* App: the processing flag
    cacheId,        \* App: cache id of the last successful upload, 0 = null
    isCropperOpen,  \* PageApprover: index of the result whose cropper is open, 0 = none
    completedCrop,  \* CropperModal: Null or Some(pixel crop)
    img,            \* CropperModal: imgRef.current, Null or Some([width, height])
    inflight,       \* requests awaiting their response
    now,            \* Date.now()
    started,        \* requests started since the initial state
    nAdded,         \* addToCart calls since the initial state
    last,           \* what the last step handled, showed and approved (see Event)
    consumed,       \* per cart item: successful generate requests that carried it
    removed,        \* cart items the user removed with the remove button
    lastSearch,     \* number of the search request started last, 0 = none since the initial state
    shownBatch      \* batch searched by the request whose response is displayed, 0 = none

vars == <<files, searchQuery, searchResults, cart, isProcessing, cacheId,
          isCropperOpen, completedCrop, img, inflight, now, started, nAdded,
          last, consumed, removed, lastSearch, shownBatch>>

appVars == <<files, searchQuery, searchResults, cart, isProcessing, cacheId>>
cropVars == <<isCropperOpen, completedCrop, img>>

\* ------------------------------------------------------------ backend data
\* The files the backend reports for upload batch b of k files.
FilesOf(b, k) == [i \in 1..k |-> [filename |-> <<b, i>>]]

\* A search result of batch b: a page of one of its documents, 1-based, in
\* page_number or (page_number absent) in page; source_filename may be absent.
ResultShapes(b) ==
    [source_filename : {Null} \cup {Some(<<b, i>>) : i \in 1..MaxFiles},
     page_number : 0..PageCount, page : 0..PageCount, image_url : {TRUE}]

ResultsOf(b) == { r \in ResultShapes(b) : r.page_number # 0 \/ r.page # 0 }

\* The first page of the first document of batch b, named in full.
FirstResult(b) ==
    [source_filename |-> Some(<<b, 1>>), page_number |-> 1, page |-> 0, image_url |-> TRUE]

\* What the step just taken did that the state of the components does not
\* keep: the kind and outcome of the response it handled ("" when it handled
\* none), what it showed the user ("alert", "download" or ""), and the search
\* result it approved (Null when it approved none).
Event(kind, outcome, shown, approved) ==
    [kind |-> kind, outcome |-> outcome, shown |-> shown, approved |-> approved]

NoEvent == Event("", "", "", Null)

\* A request in flight, numbered in the sequence the requests were started
\* in, and what its continuation captured: the batch the backend will name and
\* the number of files (upload), the body (search), the array sorted and the
\* body built from it (generate).  before is the cart as it stood, sequence
\* included, when generatePDF was invoked.
Request(kind, cid, nfiles, query, items, selections) ==
    [kind |-> kind, rid |-> started + 1, cache_id |-> cid, nfiles |-> nfiles,
     query |-> query, items |-> items, selections |-> selections,
     before |-> IF kind = "generate" THEN cart ELSE <<>>]

Init ==
    /\ files = <<>>
    /\ searchQuery = ""
    /\ searchResults = <<>>
    /\ cart = <<>>
    /\ isProcessing = FALSE
    /\ cacheId = 0
    /\ isCropperOpen = 0
    /\ completedCrop = Null
    /\ img = Null
    /\ inflight = {}
    /\ now = 0
    /\ started = 0
    /\ nAdded = 0
    /\ last = NoEvent
    /\ consumed = [n \in 1..MostAdds |-> 0]
    /\ removed = {}
    /\ lastSearch = 0
    /\ shownBatch = 0

\* ------------------------------------------------------------ App.jsx
Resolve(r) == inflight \ {r}

\* handleUpload up to its await: k files were selected in the file input.
handleUpload(k, limit) ==
    /\ ~isProcessing                       \* <input disabled={isProcessing}>
    /\ k # 0                               \* selectedFiles.length === 0: return
    /\ started < limit
    /\ isProcessing' = TRUE
    /\ started' = started + 1
    /\ inflight' = inflight \cup
          {Request("upload", started + 1, k, "", <<>>, <<>>)}
    /\ last' = NoEvent
    /\ UNCHANGED <<files, searchQuery, searchResults, cart, cacheId, cropVars,
                   now, nAdded, consumed, removed, lastSearch, shownBatch>>

\* The response has status 'success': cacheId and files are taken from it.
uploadSucceeds(r) ==
    /\ r \in inflight /\ r.kind = "upload"
    /\ cacheId' = r.cache_id
    /\ files' = FilesOf(r.cache_id, r.nfiles)
    /\ isProcessing' = FALSE
    /\ inflight' = Resolve(r)
    /\ last' = Event("upload", "success", "", Null)
    /\ UNCHANGED <<searchQuery, searchResults, cart, cropVars, now, started,
                   nAdded, consumed, removed, lastSearch, shownBatch>>

\* Mutant of uploadRefused: the files of the refused upload are displayed.
uploadRefusedShowsFiles(r) ==
    /\ r \in inflight /\ r.kind = "upload"
    /\ files' = FilesOf(r.cache_id, r.nfiles)
    /\ isProcessing' = FALSE
    /\ inflight' = Resolve(r)
    /\ last' = Event("upload", "refused", "", Null)
    /\ UNCHANGED <<searchQuery, searchResults, cart, cacheId, cropVars,
                   now, started, nAdded, consumed, removed,
                   lastSearch, shownBatch>>

\* The response has another status: only the finally block runs.
uploadRefused(r) ==
    /\ r \in inflight /\ r.kind = "upload"
    /\ isProcessing' = FALSE
    /\ inflight' = Resolve(r)
    /\ last' = Event("upload", "refused", "", Null)
    /\ UNCHANGED <<files, searchQuery, searchResults, cart, cacheId, cropVars,
                   now, started, nAdded, consumed, removed,
                   lastSearch, shownBatch>>

\* fetch or response.json() throws: console.error, alert, finally.
uploadThrows(r) ==
    /\ r \in inflight /\ r.kind = "upload"
    /\ isProcessing' = FALSE
    /\ inflight' = Resolve(r)
    /\ last' = Event("upload", "threw", "alert", Null)
    /\ UNCHANGED <<files, searchQuery, searchResults, cart, cacheId, cropVars,
                   now, started, nAdded, consumed, removed,
                   lastSearch, shownBatch>>

\* The textarea's onChange.
setSearchQuery(q) ==
    /\ q # searchQuery
    /\ searchQuery' = q
    /\ last' = NoEvent
    /\ UNCHANGED <<files, searchResults, cart, isProcessing, cacheId, cropVars,
                   inflight, now, started, nAdded, consumed, removed,
                   lastSearch, shownBatch>>

\* handleSearch up to its await.
handleSearch(limit) ==
    /\ searchQuery # "" /\ cacheId # 0      \* !searchQuery || !cacheId: return
    /\ started < limit
    /\ isProcessing' = TRUE
    /\ started' = started + 1
    /\ inflight' = inflight \cup
          {Request("search", cacheId, 0, searchQuery, <<>>, <<>>)}
    /\ lastSearch' = started + 1
    /\ last' = NoEvent
    /\ UNCHANGED <<files, searchQuery, searchResults, cart, cacheId, cropVars,
                   now, nAdded, consumed, removed, shownBatch>>

\* The search button: disabled={isProcessing || !cacheId}.
searchButton(limit) ==
    /\ ~isProcessing /\ cacheId # 0
    /\ handleSearch(limit)

\* Enter in the textarea: onKeyDown calls handleSearch unconditionally.
searchEnter(limit) == handleSearch(limit)

\* The response carries a results field (an empty list is truthy too).  A
\* PageApprover is keyed by its index: the open cropper stays open when the
\* new list still has that index and is unmounted otherwise.
searchSucceeds(r, results) ==
    /\ r \in inflight /\ r.kind = "search"
    /\ searchResults' = results
    /\ IF isCropperOpen > Len(results)
          THEN isCropperOpen' = 0 /\ completedCrop' = Null /\ img' = Null
          ELSE UNCHANGED cropVars
    /\ isProcessing' = FALSE
    /\ inflight' = Resolve(r)
    /\ shownBatch' = r.cache_id
    /\ last' = Event("search", "success", "", Null)
    /\ UNCHANGED <<files, searchQuery, cart, cacheId, now, started, nAdded,
                   consumed, removed, lastSearch>>

\* The response has no results field: only the finally block runs.
searchRefused(r) ==
    /\ r \in inflight /\ r.kind = "search"
    /\ isProcessing' = FALSE
    /\ inflight' = Resolve(r)
    /\ last' = Event("search", "refused", "", Null)
    /\ UNCHANGED <<files, searchQuery, searchResults, cart, cacheId, cropVars,
                   now, started, nAdded, consumed, removed,
                   lastSearch, shownBatch>>

\* Mutant of searchThrows: the finally block is missing.
searchThrowsStaysProcessing(r) ==
    /\ r \in inflight /\ r.kind = "search"
    /\ inflight' = Resolve(r)
    /\ last' = Event("search", "threw", "", Null)
    /\ UNCHANGED <<files, searchQuery, searchResults, cart, isProcessing,
                   cacheId, cropVars, now, started, nAdded, consumed, removed,
                   lastSearch, shownBatch>>

\* fetch or response.json() throws: console.error only, then finally.
searchThrows(r) ==
    /\ r \in inflight /\ r.kind = "search"
    /\ isProcessing' = FALSE
    /\ inflight' = Resolve(r)
    /\ last' = Event("search", "threw", "", Null)
    /\ UNCHANGED <<files, searchQuery, searchResults, cart, cacheId, cropVars,
                   now, started, nAdded, consumed, removed,
                   lastSearch, shownBatch>>

\* Mutant of NewItem: the 1-based page number is stored as it came.
NewItemOneBased(result, crop, t, n) ==
    [id |-> t,
     source_pdf |-> IF Truthy(result.source_filename) THEN result.source_filename[1]
                    ELSE IF Len(files) > 0 THEN files[1].filename ELSE <<>>,
     page_number |-> Or(result.page_number, result.page),
     order |-> Len(cart),
     crop_box |-> crop,
     n |-> n]

\* The item addToCart builds from a result, a crop and the clock reading t.
\* n tells apart two items that are equal field by field (object identity).
NewItem(result, crop, t, n) ==
    [id |-> t,
     source_pdf |-> IF Truthy(result.source_filename) THEN result.source_filename[1]
                    ELSE IF Len(files) > 0 THEN files[1].filename ELSE <<>>,
     page_number |-> Or(result.page_number, result.page) - 1,
     order |-> Len(cart),
     crop_box |-> crop,
     n |-> n]

\* addToCart(result, crop): the clock stands at t when Date.now() is read.
addToCart(result, crop, t, limit) ==
    /\ nAdded < limit
    /\ now' = t
    /\ nAdded' = nAdded + 1
    /\ cart' = Append(cart, NewItem(result, crop, t, nAdded + 1))
    /\ last' = Event("", "", "", Some(result))
    /\ UNCHANGED <<files, searchQuery, searchResults, isProcessing, cacheId,
                   inflight, started, consumed, removed,
                   lastSearch, shownBatch>>

\* removeFromCart(id), from the remove button of a displayed item.
removeFromCart(id) ==
    /\ \E i \in 1..Len(cart) : cart[i].id = id
    /\ cart' = SelectSeq(cart, LAMBDA item : item.id # id)
    /\ removed' = removed \cup {cart[i].n : i \in {j \in 1..Len(cart) : cart[j].id = id}}
    /\ last' = NoEvent
    /\ UNCHANGED <<files, searchQuery, searchResults, isProcessing, cacheId,
                   cropVars, inflight, now, started, nAdded, consumed,
                   lastSearch, shownBatch>>

\* Mutant of InsertByOrder: an element goes before its equals (unstable sort).
InsertBeforeEquals(sorted, item) ==
    LET k == Cardinality({i \in 1..Len(sorted) : sorted[i].order < item.order})
    IN  SubSeq(sorted, 1, k) \o <<item>> \o SubSeq(sorted, k + 1, Len(sorted))

\* Array.prototype.sort((a, b) => a.order - b.order): a stable sort, here by
\* insertion: each element goes behind the elements whose order is not larger.
InsertByOrder(sorted, item) ==
    LET k == Cardinality({i \in 1..Len(sorted) : sorted[i].order <= item.order})
    IN  SubSeq(sorted, 1, k) \o <<item>> \o SubSeq(sorted, k + 1, Len(sorted))

RECURSIVE SortFrom(_, _)
SortFrom(sorted, rest) ==
    IF rest = <<>> THEN sorted
    ELSE SortFrom(InsertByOrder(sorted, Head(rest)), Tail(rest))

\* Mutant of SortByOrder: the cart is sent as it stands.
Unsorted(s) == s

SortByOrder(s) == SortFrom(<<>>, s)

\* Mutant of Selection: height and width change places in the tuple.
SelectionHeightFirst(s) ==
    [source_pdf |-> s.source_pdf,
     page_number |-> s.page_number,
     crop_box |-> IF Truthy(s.crop_box)
                  THEN Some(<<s.crop_box[1].x, s.crop_box[1].y,
                              s.crop_box[1].height, s.crop_box[1].width>>)
                  ELSE Null]

\* One entry of the selections list of the request body.
Selection(s) ==
    [source_pdf |-> s.source_pdf,
     page_number |-> s.page_number,
     crop_box |-> IF Truthy(s.crop_box)
                  THEN Some(<<s.crop_box[1].x, s.crop_box[1].y,
                              s.crop_box[1].width, s.crop_box[1].height>>)
                  ELSE Null]

Selections(sortedSelections) ==
    [i \in 1..Len(sortedSelections) |-> Selection(sortedSelections[i])]

\* Mutant of generatePDF: neither the button nor the handler looks at the
\* length of the cart.
generatePDFUnguarded(limit) ==
    /\ ~isProcessing
    /\ started < limit
    /\ isProcessing' = TRUE
    /\ cart' = SortByOrder(cart)
    /\ started' = started + 1
    /\ inflight' = inflight \cup
          {Request("generate", 0, 0, "",
                   SortByOrder(cart), Selections(SortByOrder(cart)))}
    /\ last' = NoEvent
    /\ UNCHANGED <<files, searchQuery, searchResults, cacheId, cropVars, now,
                   nAdded, consumed, removed, lastSearch, shownBatch>>

\* generatePDF up to its await.  cart.sort sorts the array held in state.
generatePDF(limit) ==
    /\ ~isProcessing /\ Len(cart) # 0      \* disabled={isProcessing || cart.length === 0}
    /\ Len(cart) # 0                       \* cart.length === 0: return
    /\ started < limit
    /\ isProcessing' = TRUE
    /\ cart' = SortByOrder(cart)
    /\ started' = started + 1
    /\ inflight' = inflight \cup
          {Request("generate", 0, 0, "",
                   SortByOrder(cart), Selections(SortByOrder(cart)))}
    /\ last' = NoEvent
    /\ UNCHANGED <<files, searchQuery, searchResults, cacheId, cropVars, now,
                   nAdded, consumed, removed, lastSearch, shownBatch>>

\* The response has status 'success': window.open, setCart([]).
generateSucceeds(r) ==
    /\ r \in inflight /\ r.kind = "generate"
    /\ cart' = <<>>
    /\ consumed' = [n \in 1..MostAdds |->
          IF \E i \in 1..Len(r.items) : r.items[i].n = n
          THEN consumed[n] + 1 ELSE consumed[n]]
    /\ isProcessing' = FALSE
    /\ inflight' = Resolve(r)
    /\ last' = Event("generate", "success", "download", Null)
    /\ UNCHANGED <<files, searchQuery, searchResults, cacheId, cropVars, now,
                   started, nAdded, removed, lastSearch, shownBatch>>

\* The response has another status: only the finally block runs.
generateRefused(r) ==
    /\ r \in inflight /\ r.kind = "generate"
    /\ isProcessing' = FALSE
    /\ inflight' = Resolve(r)
    /\ last' = Event("generate", "refused", "", Null)
    /\ UNCHANGED <<files, searchQuery, searchResults, cart, cacheId, cropVars,
                   now, started, nAdded, consumed, removed,
                   lastSearch, shownBatch>>

\* fetch or response.json() throws: console.error, alert, finally.
generateThrows(r) ==
    /\ r \in inflight /\ r.kind = "generate"
    /\ isProcessing' = FALSE
    /\ inflight' = Resolve(r)
    /\ last' = Event("generate", "threw", "alert", Null)
    /\ UNCHANGED <<files, searchQuery, searchResults, cart, cacheId, cropVars,
                   now, started, nAdded, consumed, removed,
                   lastSearch, shownBatch>>

\* ------------------------------------------------- PageApprover, CropperModal
\* The pixel crops the crop widget can report on an image of the given size:
\* any rectangle with non-negative corner and extent, a click without a drag
\* (extent 0) included, that ends at most one unit past the image, the image
\* size being the rounded layout size the widget does not use.
PixelCrops(size) ==
    { c \in [x : 0..size.width, y : 0..size.height,
             width : 0..size.width + 1, height : 0..size.height + 1] :
        /\ c.x + c.width <= size.width + 1
        /\ c.y + c.height <= size.height + 1 }

\* Four of them: the whole image, a part of it, a click, an overshoot.
CornerCrops(size) ==
    { [x |-> 0, y |-> 0, width |-> size.width, height |-> size.height],
      [x |-> 0, y |-> 1, width |-> size.width, height |-> size.height - 1],
      [x |-> 1, y |-> 1, width |-> 0, height |-> 0],
      [x |-> 1, y |-> 0, width |-> size.width, height |-> size.height + 1] }

\* The sizes an image is displayed at; the tall one among them.
TallImage == { [width |-> MaxDim, height |-> MaxDim + 1] }
ImageSizes == [width : MaxDim..(MaxDim + 1), height : MaxDim..(MaxDim + 1)]

\* handleApprove(crop) of the PageApprover of result: onApprove is
\* (crop) => addToCart(result, crop) of the latest render.
handleApprove(result, crop, t, limit) == addToCart(result, crop, t, limit)

Approvable(i) ==
    /\ i \in 1..Len(searchResults)
    /\ searchResults[i].image_url           \* imageUrl ? <PageApprover> : placeholder

\* The 'Add Full' button of result i (covered by the modal while it is open).
addFull(i, t, limit) ==
    /\ Approvable(i)
    /\ isCropperOpen = 0
    /\ handleApprove(searchResults[i], Null, t, limit)
    /\ UNCHANGED cropVars

\* The crop button of result i: the modal opens, its effect resets the crop,
\* the image is mounted at its displayed size.
openCropper(i, size) ==
    /\ Approvable(i)
    /\ isCropperOpen = 0
    /\ isCropperOpen' = i
    /\ completedCrop' = Null
    /\ img' = Some(size)
    /\ last' = NoEvent
    /\ UNCHANGED <<appVars, inflight, now, started, nAdded, consumed, removed,
                   lastSearch, shownBatch>>

\* Cancel or X: onClose.  The modal renders null, the image is unmounted.
closeCropper ==
    /\ isCropperOpen # 0
    /\ isCropperOpen' = 0
    /\ img' = Null
    /\ last' = NoEvent
    /\ UNCHANGED <<appVars, completedCrop, inflight, now, started, nAdded,
                   consumed, removed, lastSearch, shownBatch>>

\* ReactCrop's onComplete: the widget reports pixel crop c on the image
\* mounted at the given size.
onComplete(c, size) ==
    /\ isCropperOpen # 0
    /\ img = Some(size)
    /\ completedCrop' = Some(c)
    /\ last' = NoEvent
    /\ UNCHANGED <<appVars, isCropperOpen, img, inflight, now, started, nAdded,
                   consumed, removed, lastSearch, shownBatch>>

\* Mutant of NormalizedCrop: x and width are divided by the height.
NormalizedCropCrossed(c, image) ==
    [x |-> Div(c.x, image.height),
     y |-> Div(c.y, image.height),
     width |-> Div(c.width, image.height),
     height |-> Div(c.height, image.height)]

\* The normalized crop of handleConfirm.
NormalizedCrop(c, image) ==
    [x |-> Div(c.x, image.width),
     y |-> Div(c.y, image.height),
     width |-> Div(c.width, image.width),
     height |-> Div(c.height, image.height)]

\* What handleConfirm passes to onConfirm.
ConfirmedCrop ==
    IF ~Truthy(completedCrop) \/ ~Truthy(img) THEN Null
    ELSE Some(NormalizedCrop(completedCrop[1], img[1]))

\* 'Confirm Crop': handleConfirm, then PageApprover's onConfirm: the modal
\* closes and handleApprove(crop) runs.
handleConfirm(t, limit) ==
    /\ isCropperOpen # 0
    /\ isCropperOpen' = 0
    /\ img' = Null
    /\ UNCHANGED completedCrop
    /\ handleApprove(searchResults[isCropperOpen], ConfirmedCrop, t, limit)

\* ------------------------------------------------------------ behaviours
Queries == {"", "q"}

uploadResponse ==
    \E r \in inflight : uploadSucceeds(r) \/ uploadRefused(r) \/ uploadThrows(r)

generateResponse ==
    \E r \in inflight : generateSucceeds(r) \/ generateRefused(r) \/ generateThrows(r)

\* A search finds nothing or the first page of the first document of the
\* batch it searched.
searchResponse ==
    \E r \in inflight :
        \/ \E results \in {<<>>, <<FirstResult(r.cache_id)>>} : searchSucceeds(r, results)
        \/ searchRefused(r)
        \/ searchThrows(r)

\* The App after the first upload succeeded (batch 1, MaxFiles files) and a
\* search for "q" returned the given results; no request is in flight.
LoadedApp(results) ==
    /\ files = FilesOf(1, MaxFiles)
    /\ searchQuery = "q"
    /\ searchResults = results
    /\ cart = <<>>
    /\ isProcessing = FALSE
    /\ cacheId = 1
    /\ inflight = {}
    /\ now = 0
    /\ started = 0
    /\ nAdded = 0
    /\ last = Event("search", "success", "", Null)
    /\ consumed = [n \in 1..MostAdds |-> 0]
    /\ removed = {}
    /\ lastSearch = 0
    /\ shownBatch = 1

\* The same with no cropper open.
Loaded(results) ==
    /\ LoadedApp(results)
    /\ isCropperOpen = 0
    /\ completedCrop = Null
    /\ img = Null

\* The same with the cropper of the first result open on an image of the
\* given size and the given crop completed.
Cropping(results, size, crop) ==
    /\ LoadedApp(results)
    /\ isCropperOpen = 1
    /\ completedCrop = crop
    /\ img = Some(size)

\* Requests and the cart: uploads of MaxFiles files (an empty selection
\* returns at once), searches (button and Enter), full-page approvals,
\* removals and generate requests, in any interleaving with their responses.
Next ==
    \/ \E k \in {0, MaxFiles} : handleUpload(k, MaxRequests)
    \/ uploadResponse
    \/ \E q \in Queries : setSearchQuery(q)
    \/ searchButton(MaxRequests)
    \/ searchEnter(MaxRequests)
    \/ searchResponse
    \/ \E t \in now..MaxClock : addFull(1, t, MaxAdds)
    \/ \E i \in 1..Len(cart) : removeFromCart(cart[i].id)
    \/ generatePDF(MaxRequests)
    \/ generateResponse

Spec == Init /\ [][Next]_vars

\* The same with LiveRequests requests, every request in flight being
\* answered in the end: fetch settles, and the continuation of the handler
\* that awaits it then runs.
Respond == uploadResponse \/ searchResponse \/ generateResponse

LiveNext ==
    \/ \E k \in {0, MaxFiles} : handleUpload(k, LiveRequests)
    \/ \E q \in Queries : setSearchQuery(q)
    \/ searchButton(LiveRequests)
    \/ searchEnter(LiveRequests)
    \/ \E t \in now..MaxClock : addFull(1, t, MaxAdds)
    \/ \E i \in 1..Len(cart) : removeFromCart(cart[i].id)
    \/ generatePDF(LiveRequests)
    \/ Respond

LiveSpec == Init /\ [][LiveNext]_vars /\ WF_vars(Respond)

\* The order of the cart: approvals of one displayed result, removals and
\* generate requests.
CartInit == Loaded(<<FirstResult(1)>>)

CartNext ==
    \/ \E t \in now..MaxClock : addFull(1, t, CartAdds)
    \/ \E i \in 1..Len(cart) : removeFromCart(cart[i].id)
    \/ generatePDF(MaxGenerates)
    \/ generateResponse

CartSpec == CartInit /\ [][CartNext]_vars

\* From a result to the request: a result of any shape is displayed,
\* approved in full and sent.
PageInit == \E result \in ResultsOf(1) : Loaded(<<result>>)

PageNext ==
    \/ \E t \in now..MaxClock : addFull(1, t, ApproveAdds)
    \/ generatePDF(MaxGenerates)
    \/ generateResponse

PageSpec == PageInit /\ [][PageNext]_vars

\* From a crop to the request: one displayed result is approved in full or
\* with one of the corner crops, and sent.
SelectionNext ==
    \/ \E t \in now..MaxClock : addFull(1, t, ApproveAdds)
    \/ \E size \in TallImage : openCropper(1, size)
    \/ closeCropper
    \/ \E size \in TallImage : \E c \in CornerCrops(size) : onComplete(c, size)
    \/ \E t \in now..MaxClock : handleConfirm(t, ApproveAdds)
    \/ generatePDF(MaxGenerates)
    \/ generateResponse

SelectionSpec == CartInit /\ [][SelectionNext]_vars

\* The cropper: it stands open on an image of any size with any pixel crop
\* the widget can report completed, or none; the user drags again, confirms
\* or cancels.
CropInit ==
    \E size \in ImageSizes :
        \E crop \in {Null} \cup {Some(c) : c \in PixelCrops(size)} :
            Cropping(<<FirstResult(1)>>, size, crop)

CropNext ==
    \/ closeCropper
    \/ \E size \in ImageSizes : \E c \in PixelCrops(size) : onComplete(c, size)
    \/ \E t \in now..MaxClock : handleConfirm(t, MostAdds)

CropSpec == CropInit /\ [][CropNext]_vars

\* ------------------------------------------------------------ properties
Generates == {r \in inflight : r.kind = "generate"}
CartItems == {cart[i].n : i \in 1..Len(cart)}

\* The 1-based page a result carries: page_number, or page when that is absent.
PageOf(result) ==
    IF result.page_number # 0 THEN result.page_number ELSE result.page

\* C1: addToCart of a result carrying the 1-based page p >= 1 stores
\* page_number = p - 1 in the item it creates, and every selection of a
\* generate request carries the page_number stored in its item, unconverted.
C1_PageNumberZeroBased ==
    /\ (Truthy(last.approved) /\ PageOf(last.approved[1]) >= 1) =>
          cart[Len(cart)].page_number = PageOf(last.approved[1]) - 1
    /\ \A r \in Generates : \A i \in 1..Len(r.items) :
          r.selections[i].page_number = r.items[i].page_number

\* A result with its page in `page` alone was approved while a request was in
\* flight, and the last page of the document was stored as PageCount - 1.
C1_Witness ==
    /\ Generates # {}
    /\ Truthy(last.approved)
    /\ last.approved[1].page_number = 0
    /\ last.approved[1].page = PageCount
    /\ cart[Len(cart)].page_number = PageCount - 1

Ascending(items) ==
    \A i \in 1..(Len(items) - 1) : items[i].order <= items[i + 1].order

\* C2: the selections a generatePDF call sends are in ascending `order`, one
\* per item of the cart it was invoked on: as many as the cart holds, each
\* item once, each selection carrying the document and page of its item.
C2_SentAscendingComplete ==
    [][\A r \in inflight' \ inflight :
          r.kind = "generate" =>
             /\ Ascending(r.items)
             /\ Len(r.selections) = Len(cart)
             /\ Len(r.items) = Len(cart)
             /\ {r.items[i].n : i \in 1..Len(r.items)} = CartItems
             /\ \A i \in 1..Len(r.items) :
                   /\ r.selections[i].source_pdf = r.items[i].source_pdf
                   /\ r.selections[i].page_number = r.items[i].page_number]_vars

\* A request of at least two selections that the sort put in another sequence
\* than the one they were added in.
C2_Witness ==
    \E r \in Generates : \E i, j \in 1..Len(r.items) :
        i < j /\ r.items[i].n > r.items[j].n

\* C3: items of equal `order` are sent in the sequence they were added to the
\* cart in, on a first and on a repeated generatePDF.
C3_TiesInInsertionSequence ==
    \A r \in Generates : \A i, j \in 1..Len(r.items) :
        (i < j /\ r.items[i].order = r.items[j].order) => r.items[i].n < r.items[j].n

\* A second generate request, after an earlier attempt, with two items of
\* equal order.
C3_Witness ==
    \E r \in Generates :
        /\ r.rid >= 2
        /\ \E i, j \in 1..Len(r.items) : i < j /\ r.items[i].order = r.items[j].order

\* C4: an approved item that left the cart without the user removing it was
\* carried by exactly one successful generate request, and no item was carried
\* by two.
C4_ConsumedExactlyOnce ==
    \A n \in 1..nAdded :
        /\ consumed[n] <= 1
        /\ (n \notin CartItems /\ n \notin removed) => consumed[n] = 1

\* A fractional crop inside the unit square (its denominators are positive).
InUnitSquare(x, y, width, height) ==
    /\ 0 <= x.num /\ 0 <= y.num
    /\ LeqOne(AddFrac(x, width))
    /\ LeqOne(AddFrac(y, height))

\* C5: every crop_box in the cart and in a generate request lies inside the
\* unit square.
C5_CropInsideUnitSquare ==
    /\ \A i \in 1..Len(cart) :
          Truthy(cart[i].crop_box) =>
             InUnitSquare(cart[i].crop_box[1].x, cart[i].crop_box[1].y,
                          cart[i].crop_box[1].width, cart[i].crop_box[1].height)
    /\ \A r \in Generates : \A i \in 1..Len(r.selections) :
          Truthy(r.selections[i].crop_box) =>
             InUnitSquare(r.selections[i].crop_box[1][1], r.selections[i].crop_box[1][2],
                          r.selections[i].crop_box[1][3], r.selections[i].crop_box[1][4])

\* C6: no crop_box in the cart or in a generate request has a width or a
\* height that is zero or negative.
C6_NoDegenerateCrop ==
    /\ \A i \in 1..Len(cart) :
          Truthy(cart[i].crop_box) =>
             cart[i].crop_box[1].width.num > 0 /\ cart[i].crop_box[1].height.num > 0
    /\ \A r \in Generates : \A i \in 1..Len(r.selections) :
          Truthy(r.selections[i].crop_box) =>
             r.selections[i].crop_box[1][3].num > 0 /\ r.selections[i].crop_box[1][4].num > 0

\* C7: confirming a completed pixel crop (x, y, w, h) on an image W wide and
\* H high hands on the crop x/W, y/H, w/W, h/H.
C7_DividesByOwnDimension ==
    [][(isCropperOpen # 0 /\ nAdded' = nAdded + 1
          /\ Truthy(completedCrop) /\ Truthy(img)) =>
          LET c == completedCrop[1]
              W == img[1].width
              H == img[1].height
              got == cart'[Len(cart')].crop_box
          IN  /\ W > 0 /\ H > 0
              /\ Truthy(got)
              /\ SameNumber(got[1].x, Div(c.x, W))
              /\ SameNumber(got[1].y, Div(c.y, H))
              /\ SameNumber(got[1].width, Div(c.width, W))
              /\ SameNumber(got[1].height, Div(c.height, H))]_vars

\* A crop with a corner off both axes was just confirmed on an image whose
\* width and height differ.
C7_Witness ==
    /\ Truthy(last.approved)
    /\ Truthy(cart[Len(cart)].crop_box)
    /\ cart[Len(cart)].crop_box[1].x.num > 0
    /\ cart[Len(cart)].crop_box[1].y.num > 0
    /\ cart[Len(cart)].crop_box[1].width.num > 0
    /\ cart[Len(cart)].crop_box[1].x.den # cart[Len(cart)].crop_box[1].y.den

\* An approval stores null for 'Add Full' and for a confirmation without a
\* completed crop, and otherwise the crop handleConfirm produced.
C8_Stored ==
    nAdded' = nAdded + 1 =>
        IF isCropperOpen = 0 \/ ~Truthy(completedCrop)
        THEN cart'[Len(cart')].crop_box = Null
        ELSE /\ Truthy(cart'[Len(cart')].crop_box)
             /\ cart'[Len(cart')].crop_box = ConfirmedCrop

\* A selection carries null for an item without crop and otherwise the tuple
\* [x, y, width, height] of its item's crop.
C8_Sent ==
    \A r \in Generates : \A i \in 1..Len(r.items) :
        IF r.items[i].crop_box = Null
        THEN r.selections[i].crop_box = Null
        ELSE r.selections[i].crop_box =
                Some(<<r.items[i].crop_box[1].x, r.items[i].crop_box[1].y,
                       r.items[i].crop_box[1].width, r.items[i].crop_box[1].height>>)

\* C8: a full-page approval is stored and sent with crop_box null, a cropped
\* one with the tuple [x, y, width, height] of the crop handleConfirm produced.
C8_CropBoxCarried == [][C8_Stored /\ C8_Sent']_vars

\* A request of a full page and of a crop whose width and height differ.
C8_Witness ==
    \E r \in Generates : \E i, j \in 1..Len(r.selections) :
        /\ r.selections[i].crop_box = Null
        /\ Truthy(r.selections[j].crop_box)
        /\ r.selections[j].crop_box[1][3] # r.selections[j].crop_box[1][4]

\* cacheId and files name the same upload batch (or none).
SameBatch ==
    IF cacheId = 0 THEN files = <<>>
    ELSE /\ Len(files) > 0
         /\ \A i \in 1..Len(files) : files[i].filename[1] = cacheId

\* C9: a failed upload leaves cacheId and files as they were; cacheId and
\* files change only in the step that handles a successful upload response,
\* both in that step; in every state they name the same batch.
C9_UploadAllOrNothing ==
    [][/\ (inflight' # inflight /\ last'.kind = "upload" /\ last'.outcome # "success") =>
             UNCHANGED <<cacheId, files>>
       /\ (cacheId' # cacheId \/ files' # files) =>
             /\ last'.kind = "upload" /\ last'.outcome = "success"
             /\ cacheId' # cacheId /\ files' # files
       /\ SameBatch']_vars

\* An upload failed after an earlier one had succeeded.
C9_Witness ==
    /\ last.kind = "upload" /\ last.outcome # "success"
    /\ cacheId # 0 /\ files # <<>>

\* C10: the step that handles a failed search or generate response shows the
\* user an error.
C10_FailureShown ==
    (last.kind \in {"search", "generate"} /\ last.outcome \in {"refused", "threw"}) =>
        last.shown = "alert"

\* C11: search responses naming only pages of the batch searched, every
\* selection of a generate request names a document of the batch cacheId
\* stands for when the request is sent, and a page of that document.
C11_SelectionsOfCurrentBatch ==
    [][\A r \in inflight' \ inflight :
          r.kind = "generate" =>
             \A i \in 1..Len(r.selections) :
                /\ Len(r.selections[i].source_pdf) = 2
                /\ r.selections[i].source_pdf[1] = cacheId
                /\ r.selections[i].source_pdf[2] \in 1..Len(files)
                /\ r.selections[i].page_number \in 0..(PageCount - 1)]_vars

\* C12: a search response that is displayed comes from the search request
\* started last and was made against the cacheId that is current when it
\* arrives; results on display belong to the batch cacheId names.
C12_ShownFromLatestSearch ==
    [][/\ (last'.kind = "search" /\ last'.outcome = "success") =>
             \A r \in inflight \ inflight' :
                r.rid = lastSearch /\ r.cache_id = cacheId
       /\ searchResults' # <<>> => shownBatch' = cacheId']_vars

\* C13: the items a generatePDF call sends are the items of the cart in the
\* sequence the cart displayed them in when it was invoked, which is the
\* sequence they were added in.
C13_SentAsDisplayed ==
    [][\A r \in inflight' \ inflight :
          r.kind = "generate" =>
             /\ r.items = cart
             /\ Len(r.selections) = Len(cart)
             /\ \A i, j \in 1..Len(r.items) : i < j => r.items[i].n < r.items[j].n]_vars

\* C14: a generatePDF attempt that fails, no item having been added or removed
\* since it was invoked, leaves the cart as it was when it was invoked: the
\* same items in the same sequence.
C14_FailedGenerateKeepsCart ==
    [][(last'.kind = "generate" /\ last'.outcome \in {"refused", "threw"}) =>
          \A r \in inflight \ inflight' :
             {r.before[i].n : i \in 1..Len(r.before)} = {cart'[i].n : i \in 1..Len(cart')}
                => cart' = r.before]_vars

\* C15: whenever an upload, search or generate request is in flight,
\* isProcessing is true.
C15_ProcessingWhileInFlight ==
    inflight # {} => isProcessing

\* C16: the step that handles the response of a request, whatever its
\* outcome, sets isProcessing to false; isProcessing is false whenever no
\* request is in flight; every request being answered in the end,
\* isProcessing, once true, becomes false again.
C16_ProcessingReleased ==
    /\ [][last'.kind # "" => ~isProcessing']_vars
    /\ [](inflight = {} => ~isProcessing)
    /\ isProcessing ~> ~isProcessing

\* The last request in flight threw, and the UI is unlocked.
C16_Witness ==
    /\ last.kind = "search" /\ last.outcome = "threw"
    /\ started >= 2
    /\ inflight = {}
    /\ ~isProcessing

\* C17: removeFromCart, invoked from the remove button of an item, takes that
\* one item out of the cart and leaves the others as they are, in the same
\* sequence.
C17_RemovesExactlyOne ==
    [][removed' # removed =>
          \E i \in 1..Len(cart) :
             cart' = SubSeq(cart, 1, i - 1) \o SubSeq(cart, i + 1, Len(cart))]_vars

\* C18: no generate request carries an empty selections list, and no step
\* taken with an empty cart sends a generate request.
C18_NoEmptyRequest ==
    [][/\ cart = <<>> => \A r \in inflight' \ inflight : r.kind # "generate"
       /\ \A r \in inflight' : r.kind = "generate" => Len(r.selections) > 0]_vars

\* A generate request has emptied the cart: nothing is in flight, the flag is
\* down, a further request could be started, and the cart is empty.
C18_Witness ==
    /\ last.kind = "generate" /\ last.outcome = "success"
    /\ cart = <<>>
    /\ inflight = {}
    /\ ~isProcessing
    /\ started < MaxRequests

\* C19: once an upload has failed with no cache id set, the 'Upload failed or
\* cache not ready.' notice is shown: cacheId is unset, files is not empty and
\* isProcessing is false.
C19_NoticeAfterFailedUpload ==
    (last.kind = "upload" /\ last.outcome \in {"refused", "threw"} /\ cacheId = 0) =>
        (files # <<>> /\ ~isProcessing)

====
